---- MODULE Spec2Model ----
(***************************************************************************)
(* Model of bot.py: the per-user session map user_states, the JSON file    *)
(* USER_DATA_FILE, and the handlers telebot runs on its worker threads.    *)
(* A handler that touches the file or sends more than once is cut at each  *)
(* access to shared state (the file, user_states) and at each outbound     *)
(* call that may raise, so that two handlers interleave as threads do.     *)
(***************************************************************************)
EXTENDS Naturals, Sequences, FiniteSets, TLC

VARIABLES user_states, file, thr, nevents, workers, added

vars == <<user_states, file, thr, nevents, workers, added>>

(***************************************************************************)
(* Bounds of the model.                                                    *)
(***************************************************************************)
\* inbound events dispatched in one behaviour
MaxEvents == 4

\* worker threads of telebot.TeleBot(BOT_TOKEN) (threaded, pool of two)
NumThreads == 2

Threads == 1..NumThreads

\* chat ids
Users == {"u1", "u2"}

\* free-text messages: sequences of characters, " " is whitespace
Texts == { <<" ", "p">>, <<"r">> }

(***************************************************************************)
(* message.text.strip()                                                    *)
(***************************************************************************)
RECURSIVE LStrip(_)
LStrip(s) == IF s # <<>> /\ Head(s) = " " THEN LStrip(Tail(s)) ELSE s

RECURSIVE RStrip(_)
RStrip(s) ==
    IF s # <<>> /\ s[Len(s)] = " " THEN RStrip(SubSeq(s, 1, Len(s) - 1)) ELSE s

Strip(s) == RStrip(LStrip(s))

(***************************************************************************)
(* Values of user_data[user_id] in the JSON file.  kind "missing" is a     *)
(* user_id that is not a key, "nondict" a value that is not a dict, and a  *)
(* dict carries the set of keys it has.                                    *)
(***************************************************************************)
ProfileKeys == {"locations", "preferences", "alerts_enabled"}

DefaultPreferences ==
    { <<"alert_frequency", "daily">>, <<"temperature_unit", "celsius">> }

NoPreferences == {}

Missing ==
    [kind |-> "missing", keys |-> {}, locations |-> <<>>,
     preferences |-> NoPreferences, alerts_enabled |-> FALSE]

NonDict ==
    [kind |-> "nondict", keys |-> {}, locations |-> <<>>,
     preferences |-> NoPreferences, alerts_enabled |-> FALSE]

\* a variant of the literal with the alerts switched off
NewProfile_AlertsOff ==
    [kind |-> "dict", keys |-> ProfileKeys, locations |-> <<>>,
     preferences |-> DefaultPreferences, alerts_enabled |-> FALSE]

\* the literal of lines 176-183 and 186-193
NewProfile ==
    [kind |-> "dict", keys |-> ProfileKeys, locations |-> <<>>,
     preferences |-> DefaultPreferences, alerts_enabled |-> TRUE]

\* a stored dict without the "locations" key
NoLocationsDict ==
    [kind |-> "dict", keys |-> {"preferences", "alerts_enabled"},
     locations |-> <<>>, preferences |-> DefaultPreferences,
     alerts_enabled |-> TRUE]

\* a stored dict with only the "locations" key
OnlyLocationsDict(locs) ==
    [kind |-> "dict", keys |-> {"locations"}, locations |-> locs,
     preferences |-> NoPreferences, alerts_enabled |-> FALSE]

ProfileWith(locs) == [NewProfile EXCEPT !.locations = locs]

\* json {} : no user is a key
EmptyData == [u \in Users |-> Missing]

(***************************************************************************)
(* USER_DATA_FILE: absent, opened for writing and not yet written          *)
(* ("partial": truncated, no complete JSON document in it), or holding a   *)
(* complete document.                                                      *)
(***************************************************************************)
FileAbsent == [st |-> "absent", data |-> EmptyData]

FilePartial == [st |-> "partial", data |-> EmptyData]

FileWith(d) == [st |-> "full", data |-> d]

\* what the file may hold when the process starts
InitFiles ==
    { FileAbsent,
      FileWith([EmptyData EXCEPT !["u1"] = ProfileWith(<< <<"p">> >>)]),
      FileWith([EmptyData EXCEPT !["u1"] = NonDict,
                                 !["u2"] = OnlyLocationsDict(<< <<"r">> >>)]),
      FileWith([EmptyData EXCEPT !["u1"] = NoLocationsDict]) }

(***************************************************************************)
(* Outbound messages (bot.send_message): the text sent, by kind, with the  *)
(* parts that vary.                                                        *)
(***************************************************************************)
Msg(k) == [kind |-> k, locs |-> <<>>, desc |-> <<>>, temp |-> ""]

SavedMsg(locs) == [Msg("saved") EXCEPT !.locs = locs]

AlreadyMsg(loc) == [Msg("already_saved") EXCEPT !.locs = <<loc>>]

SummaryMsg(d, t) == [Msg("summary") EXCEPT !.desc = d, !.temp = t]

(***************************************************************************)
(* A worker thread and the locals of the handler it runs.                  *)
(***************************************************************************)
Idle == "none"

WaitWeather == "waiting_for_weather_location"

WaitSave == "waiting_for_save_location"

NoThr ==
    [pc |-> "free", user |-> "u1", ev |-> "none",
     current_state |-> Idle, location |-> <<>>, resolved |-> FALSE,
     branch |-> "none", data |-> EmptyData, outcome |-> "none", exc |-> "none",
     sent |-> <<>>, weather |-> [resp |-> "none", list |-> <<>>]]

Busy(t) == thr[t].pc \notin {"free", "done", "raised"}

Quiet == \A t \in Threads : ~Busy(t)

TypeOK ==
    /\ user_states \in [Users -> {Idle, WaitWeather, WaitSave}]
    /\ file.st \in {"absent", "partial", "full"}
    /\ nevents \in 0..MaxEvents
    /\ workers \in Threads
    /\ \A t \in Threads : thr[t].user \in Users

\* the locations list of a stored value, empty when it has none
LocationsOf(rec) ==
    IF rec.kind = "dict" /\ "locations" \in rec.keys THEN rec.locations ELSE <<>>

\* the module's top level: user_states = {}, no handler running.  added is
\* a history of the store: per user, the locations in the order in which
\* line 197 first appended them and save_user_data wrote them.
Start ==
    /\ user_states = [u \in Users |-> Idle]
    /\ file \in InitFiles
    /\ thr = [t \in Threads |-> NoThr]
    /\ nevents = 0
    /\ added = [u \in Users |-> LocationsOf(file.data[u])]

\* telebot.TeleBot(BOT_TOKEN): handlers run on the pool's worker threads
Init == Start /\ workers = NumThreads

\* the same program with one worker: events are handled one at a time
SeqInit == Start /\ workers = 1

(***************************************************************************)
(* Replies of the weather provider as get_weather returns them: None after *)
(* a RequestException, else the decoded JSON.  An entry of "list" carries  *)
(* its "weather" list (empty when the key is absent) and its temperature.  *)
(***************************************************************************)
Description(has, d) == [has |-> has, description |-> d]

Entry(w, hasT, t) == [weather |-> w, hasTemp |-> hasT, temp |-> t]

NoReply == [resp |-> "none", list |-> <<>>]

Reply(l) == [resp |-> "json", list |-> l]

WeatherReplies ==
    { NoReply,
      Reply(<<>>),
      Reply(<< Entry(<<>>, TRUE, "21.5") >>),
      Reply(<< Entry(<< Description(TRUE, <<"c", "S">>) >>, TRUE, "21.5") >>),
      Reply(<< Entry(<< Description(FALSE, <<>>) >>, FALSE, ""),
               Entry(<< Description(TRUE, <<"s">>) >>, TRUE, "3") >>) }

Upper(c) == CASE c = "c" -> "C" [] c = "s" -> "S" [] c = "n" -> "N" [] OTHER -> c

Lower(c) == CASE c = "C" -> "c" [] c = "S" -> "s" [] c = "U" -> "u" [] OTHER -> c

\* str.capitalize(): first character upper case, the rest lower case
Capitalize(s) ==
    [i \in 1..Len(s) |-> IF i = 1 THEN Upper(s[i]) ELSE Lower(s[i])]

\* the default of info[0].get('description', 'Unknown')
Unknown == <<"U", "n", "k", "n", "o", "w", "n">>

\* a variant that sends the description as the provider wrote it
fetch_weather_messages_Raw(w) ==
    IF w.resp = "none" THEN << Msg("could_not_retrieve") >>
    ELSE IF w.list = <<>> THEN << Msg("no_data") >>
    ELSE IF w.list[1].weather = <<>> THEN << Msg("no_description") >>
    ELSE << Msg("heres_the_weather"),
            SummaryMsg(IF w.list[1].weather[1].has
                         THEN w.list[1].weather[1].description ELSE Unknown,
                       IF w.list[1].hasTemp THEN w.list[1].temp ELSE "N/A") >>

\* a variant that sends nothing when the provider gave no answer
fetch_weather_messages_Silent(w) ==
    IF w.resp = "none" THEN << >>
    ELSE IF w.list = <<>> THEN << Msg("no_data") >>
    ELSE IF w.list[1].weather = <<>> THEN << Msg("no_description") >>
    ELSE << Msg("heres_the_weather"),
            SummaryMsg(Capitalize(w.list[1].weather[1].description),
                       w.list[1].temp) >>

\* lines 107-127 of fetch_weather: the messages it sends for a reply
fetch_weather_messages(w) ==
    IF w.resp = "none" THEN << Msg("could_not_retrieve") >>
    ELSE IF w.list = <<>> THEN << Msg("no_data") >>
    ELSE IF w.list[1].weather = <<>> THEN << Msg("no_description") >>
    ELSE LET info == w.list[1].weather
             description == IF info[1].has THEN info[1].description ELSE Unknown
             temp == IF w.list[1].hasTemp THEN w.list[1].temp ELSE "N/A"
         IN  << Msg("heres_the_weather"), SummaryMsg(Capitalize(description), temp) >>

(***************************************************************************)
(* Lines 170-197 of save_location on the loaded user_data.                 *)
(***************************************************************************)
Range(s) == { s[i] : i \in 1..Len(s) }

\* lines 174-193: create or reset the user's structure
EnsureProfile(rec) ==
    IF rec.kind = "missing" THEN NewProfile
    ELSE IF rec.kind # "dict" THEN NewProfile
    ELSE rec

\* line 196: user_data[user_id]["locations"] raises KeyError without the key
RaisesKeyError(rec) == "locations" \notin EnsureProfile(rec).keys

\* line 196: location not in user_data[user_id]["locations"]
NotPresent(rec, location) == location \notin Range(EnsureProfile(rec).locations)

\* a variant that keeps only the new location
AddLocation_Replace(rec, location) ==
    [EnsureProfile(rec) EXCEPT !.locations = << location >>]

\* line 197: append
AddLocation(rec, location) ==
    [EnsureProfile(rec) EXCEPT !.locations = Append(@, location)]

\* a variant that clears the whole session map
PopState_All(st, u) == [v \in Users |-> Idle]

\* user_states.pop(message.chat.id, None)
PopState(st, u) == [st EXCEPT ![u] = Idle]

(***************************************************************************)
(* The dispatcher hands each inbound event to a worker thread.             *)
(***************************************************************************)
\* the event goes to the first worker thread that runs no handler
Dispatch(t) ==
    /\ t <= workers
    /\ ~Busy(t)
    /\ \A o \in Threads : o < t => Busy(o)
    /\ nevents < MaxEvents
    /\ nevents' = nevents + 1
    /\ UNCHANGED <<workers, added>>

\* the locals of a handler that has returned are gone at the next step
Cleared == [o \in Threads |-> IF Busy(o) THEN thr[o] ELSE NoThr]

Run(t, r) == thr' = [Cleared EXCEPT ![t] = r]

Set(t, r) == thr' = [Cleared EXCEPT ![t] = r]

Sent(r, msgs) == [r EXCEPT !.sent = @ \o msgs]

(***************************************************************************)
(* Handlers without a try block: they run in one step.  A send_message     *)
(* that raises ends the handler there, and the exception leaves it.        *)
(***************************************************************************)
\* the first n send_message calls return; with n < Len(msgs) the next raises
Sends(r, msgs) ==
    { [Sent(r, msgs) EXCEPT !.pc = "done"] }
    \cup { [Sent(r, SubSeq(msgs, 1, n)) EXCEPT !.pc = "raised",
                                               !.exc = "ApiException"] :
             n \in 0..(Len(msgs) - 1) }

Simple(t, u, ev, msgs) ==
    /\ Dispatch(t)
    /\ \E r \in Sends([NoThr EXCEPT !.user = u, !.ev = ev], msgs) : Run(t, r)
    /\ UNCHANGED file

send_welcome(t, u) ==
    Simple(t, u, "/start", << Msg("welcome") >>) /\ UNCHANGED user_states

handle_start_yes(t, u) ==
    /\ Simple(t, u, "start_yes", << Msg("lets_get_started"), Msg("menu") >>)
    /\ UNCHANGED user_states

\* a variant that clears the session of the user
handle_start_no_Clears(t, u) ==
    /\ Simple(t, u, "start_no", << Msg("type_start") >>)
    /\ user_states' = PopState(user_states, u)

handle_start_no(t, u) ==
    Simple(t, u, "start_no", << Msg("type_start") >>) /\ UNCHANGED user_states

handle_get_weather(t, u) ==
    /\ Simple(t, u, "get_weather", << Msg("enter_weather_location") >>)
    /\ user_states' = [user_states EXCEPT ![u] = WaitWeather]

handle_set_location(t, u) ==
    /\ Simple(t, u, "set_location", << Msg("enter_save_location") >>)
    /\ user_states' = [user_states EXCEPT ![u] = WaitSave]

handle_weather_alerts(t, u) ==
    /\ Simple(t, u, "weather_alerts", << Msg("under_development") >>)
    /\ UNCHANGED user_states

handle_try_again_yes(t, u) ==
    /\ Simple(t, u, "try_again_yes", << Msg("enter_save_location") >>)
    /\ user_states' = [user_states EXCEPT ![u] = WaitSave]

handle_try_again_no(t, u) ==
    /\ Simple(t, u, "try_again_no", << Msg("not_saved") >>)
    /\ UNCHANGED user_states

(***************************************************************************)
(* fetch_weather and save_location: a try block whose except clause sends  *)
(* an error text.  Each operator is the set of states the handler can be   *)
(* in when the function returns, raises, or reaches the file.              *)
(***************************************************************************)
ErrorMsg(r) ==
    IF r.current_state = WaitWeather
      THEN Msg("unexpected_error") ELSE Msg("error_saving")

\* lines 129-131 and 209-211: the exception e is caught, the error text is
\* sent; when that send raises, the exception leaves handle_all_messages
\* before user_states.pop
except_clause(r, e) ==
    { [Sent(r, << ErrorMsg(r) >>) EXCEPT !.exc = e, !.pc = "pop"],
      [r EXCEPT !.exc = e, !.pc = "raised"] }

\* send_message calls inside the try block, then the return
send_all(r, msgs) ==
    { [Sent(r, msgs) EXCEPT !.pc = "pop"] }
    \cup UNION { except_clause(Sent(r, SubSeq(msgs, 1, n)), "ApiException") :
                   n \in 0..(Len(msgs) - 1) }

\* lines 100-127: location_handler gives None (return, nothing sent) or a
\* coordinate pair, and then get_weather gives one of WeatherReplies
fetch_weather(r) ==
    { [r EXCEPT !.pc = "pop"] }
    \cup UNION { send_all([r EXCEPT !.resolved = TRUE, !.weather = w],
                            fetch_weather_messages(w)) : w \in WeatherReplies }

\* a variant that sends the retry prompt and goes on to the file all the same
save_location_NoReturn(r, text) ==
    LET s == [r EXCEPT !.location = Strip(text)]
    IN  { [Sent(s, << Msg("retry_prompt") >>) EXCEPT !.outcome = "notfound",
                                                    !.pc = "load_exists"],
          [s EXCEPT !.resolved = TRUE, !.pc = "load_exists"] }

\* lines 149-166: strip, location_handler; None sends the retry prompt
save_location(r, text) ==
    LET s == [r EXCEPT !.location = Strip(text)]
    IN  send_all([s EXCEPT !.outcome = "notfound"], << Msg("retry_prompt") >>)
        \cup { [s EXCEPT !.resolved = TRUE, !.pc = "load_exists"] }

\* lines 303-313
handle_all_messages(t, u, text) ==
    /\ Dispatch(t)
    /\ UNCHANGED <<user_states, file>>
    /\ LET r == [NoThr EXCEPT !.user = u, !.ev = "text",
                              !.current_state = user_states[u]]
       IN  \E q \in (IF r.current_state = WaitWeather THEN fetch_weather(r)
                     ELSE IF r.current_state = WaitSave THEN save_location(r, text)
                     ELSE Sends(r, << Msg("use_the_menu") >>)) : Run(t, q)

\* lines 307, 310
pop_state(t) ==
    /\ thr[t].pc = "pop"
    /\ user_states' = PopState(user_states, thr[t].user)
    /\ Set(t, [thr[t] EXCEPT !.pc = "done"])
    /\ UNCHANGED <<file, nevents, workers, added>>

(***************************************************************************)
(* load_user_data and save_user_data, as save_location calls them.         *)
(***************************************************************************)
\* line 135: os.path.exists
load_exists(t) ==
    /\ thr[t].pc = "load_exists"
    /\ Set(t, [thr[t] EXCEPT !.pc = IF file.st = "absent"
                                     THEN "load_create_open" ELSE "load_read"])
    /\ UNCHANGED <<user_states, file, nevents, workers, added>>

\* line 136: open(USER_DATA_FILE, 'w') creates or truncates the file
load_create_open(t) ==
    /\ thr[t].pc = "load_create_open"
    /\ file' = FilePartial
    /\ Set(t, [thr[t] EXCEPT !.pc = "load_create_dump"])
    /\ UNCHANGED <<user_states, nevents, workers, added>>

\* line 137: json.dump({}, f) and the close
load_create_dump(t) ==
    /\ thr[t].pc = "load_create_dump"
    /\ file' = FileWith(EmptyData)
    /\ Set(t, [thr[t] EXCEPT !.pc = "load_read"])
    /\ UNCHANGED <<user_states, nevents, workers, added>>

\* which of lines 174, 184 the stored value takes
Branch(rec) ==
    IF rec.kind = "missing" THEN "new"
    ELSE IF rec.kind # "dict" THEN "reset"
    ELSE "existing"

\* a variant that saves the loaded data when the location is already there
Updated_SaveAnyway(r, data) ==
    LET u == r.user
        rec == data[u]
        b == [r EXCEPT !.branch = Branch(rec)]
    IN  IF RaisesKeyError(rec) THEN except_clause(b, "KeyError")
        ELSE IF NotPresent(rec, r.location)
          THEN { [b EXCEPT !.pc = "save_open",
                   !.data = [data EXCEPT ![u] = AddLocation(rec, r.location)]] }
          ELSE { [b EXCEPT !.pc = "save_open", !.outcome = "duplicate",
                   !.data = [data EXCEPT ![u] = EnsureProfile(rec)]] }

\* lines 170-207 on the data json.load returned, up to save_user_data
Updated(r, data) ==
    LET u == r.user
        rec == data[u]
        b == [r EXCEPT !.branch = Branch(rec)]
    IN  IF RaisesKeyError(rec) THEN except_clause(b, "KeyError")
        ELSE IF NotPresent(rec, r.location)
          THEN { [b EXCEPT !.pc = "save_open",
                   !.data = [data EXCEPT ![u] = AddLocation(rec, r.location)]] }
          ELSE send_all([b EXCEPT !.outcome = "duplicate",
                           !.data = [data EXCEPT ![u] = EnsureProfile(rec)]],
                        << AlreadyMsg(r.location) >>)

\* json.load of what the file holds at this moment
Loaded(r, f) ==
    IF f.st = "full" THEN Updated(r, f.data)
    ELSE except_clause(r, "JSONDecodeError")

\* lines 138-139, then lines 170-207
load_read(t) ==
    /\ thr[t].pc = "load_read"
    /\ \E q \in Loaded(thr[t], file) : Set(t, q)
    /\ UNCHANGED <<user_states, file, nevents, workers, added>>

\* line 143: open(USER_DATA_FILE, 'w') truncates the file, or raises OSError
save_open(t) ==
    /\ thr[t].pc = "save_open"
    /\ \/ /\ file' = FilePartial
          /\ Set(t, [thr[t] EXCEPT !.pc = "save_dump"])
       \/ /\ UNCHANGED file
          /\ \E q \in except_clause(thr[t], "OSError") : Set(t, q)
    /\ UNCHANGED <<user_states, nevents, workers, added>>

\* the history after location was appended and written
FirstAdded(hist, location) ==
    IF location \in Range(hist) THEN hist ELSE Append(hist, location)

\* what save_user_data leaves in the file
Written(data) == FileWith(data)

\* line 144: json.dump(data, f) and the close; then lines 204-205
save_dump(t) ==
    /\ thr[t].pc = "save_dump"
    /\ file' = Written(thr[t].data)
    /\ \E q \in send_all([thr[t] EXCEPT !.outcome = "added"],
                         << SavedMsg(thr[t].data[thr[t].user].locations) >>) :
         Set(t, q)
    /\ added' = [added EXCEPT ![thr[t].user] = FirstAdded(@, thr[t].location)]
    /\ UNCHANGED <<user_states, nevents, workers>>

Event(t) ==
    \E u \in Users :
        \/ send_welcome(t, u)
        \/ handle_start_yes(t, u)
        \/ handle_start_no(t, u)
        \/ handle_get_weather(t, u)
        \/ handle_set_location(t, u)
        \/ handle_weather_alerts(t, u)
        \/ handle_try_again_yes(t, u)
        \/ handle_try_again_no(t, u)
        \/ \E text \in Texts : handle_all_messages(t, u, text)

Step(t) ==
    \/ pop_state(t)
    \/ load_exists(t)
    \/ load_create_open(t)
    \/ load_create_dump(t)
    \/ load_read(t)
    \/ save_open(t)
    \/ save_dump(t)

Next == \E t \in Threads : Event(t) \/ Step(t)

Spec == Init /\ [][Next]_vars

SeqSpec == SeqInit /\ [][Next]_vars

(***************************************************************************)
(* Properties.  A handler's locals stay in thr for the one state that      *)
(* follows its last step, so a property of "the handler has finished" is   *)
(* a property of that state.                                               *)
(***************************************************************************)
Ended(t) == thr[t].pc \in {"done", "raised"}

\* a free-text message handled in waiting_for_save_location
SaveRun(t) == thr[t].ev = "text" /\ thr[t].current_state = WaitSave

\* a free-text message handled in one of the two waiting states
AwaitedText(t) == thr[t].ev = "text" /\ thr[t].current_state # Idle

\* save_user_data has returned in this run
Saved(t) == SaveRun(t) /\ thr[t].outcome = "added"

Count(x, s) == Cardinality({ i \in 1..Len(s) : s[i] = x })

Holds(u, location) ==
    /\ file.st = "full"
    /\ file.data[u].kind = "dict"
    /\ "locations" \in file.data[u].keys
    /\ location \in Range(file.data[u].locations)

\* the profile the spec gives a new user, with one location
FirstProfile(location) ==
    [kind |-> "dict",
     keys |-> {"locations", "preferences", "alerts_enabled"},
     locations |-> << location >>,
     preferences |-> { <<"alert_frequency", "daily">>,
                       <<"temperature_unit", "celsius">> },
     alerts_enabled |-> TRUE]

WellFormed(rec) ==
    /\ rec.kind = "dict"
    /\ rec.keys = {"locations", "preferences", "alerts_enabled"}
    /\ { p[1] : p \in rec.preferences } = {"alert_frequency", "temperature_unit"}

\* C1: when the save-location runs of two distinct users have both written
\* the store, in whatever order their loads and saves were interleaved, the
\* store holds both users' records, each with the location that user saved.
C1_BothLocationsPresent ==
    \A t1, t2 \in Threads :
        (t1 # t2 /\ Saved(t1) /\ Saved(t2) /\ thr[t1].user # thr[t2].user)
        => /\ Holds(thr[t1].user, thr[t1].location)
           /\ Holds(thr[t2].user, thr[t2].location)

\* C2: with events handled one at a time, a save-location run for (u, L)
\* whose location the resolver resolved and whose write the file system did
\* not refuse ends "added" (first time, the profile created when u has none)
\* or "duplicate" (L already in the list, as the second time in a row), and
\* the persisted list of u then holds L exactly once.
C2_AddedThenDuplicate ==
    \A t \in Threads :
        (SaveRun(t) /\ thr[t].resolved /\ thr[t].pc \in {"pop", "done", "raised"}
           /\ thr[t].exc # "OSError")
        => /\ thr[t].outcome \in {"added", "duplicate"}
           /\ thr[t].branch \in {"new", "reset"} => thr[t].outcome = "added"
           /\ file.st = "full"
           /\ Count(thr[t].location, file.data[thr[t].user].locations) = 1

\* the step is one of thread t
Steps(t) == thr'[t] # thr[t] /\ thr'[t].pc # "free"

\* C3: a free-text message handled in waiting_for_save_location whose
\* location the resolver does not find: no step of the run changes the
\* store; unless send_message raises, the retry prompt is sent and nothing
\* else; once the prompt is sent and the handler has returned the session
\* is idle; and a try_again_no press handled next leaves the store and every
\* session step as they are.
C3_NotFoundLeavesStore ==
    [][\A t \in Threads :
         /\ (Steps(t) /\ thr'[t].ev = "text" /\ ~thr'[t].resolved)
              => file' = file
         /\ (Steps(t) /\ SaveRun(t)' /\ ~thr'[t].resolved /\ thr'[t].exc = "none")
              => thr'[t].sent = << Msg("retry_prompt") >>
         /\ (Steps(t) /\ SaveRun(t)' /\ ~thr'[t].resolved /\ thr'[t].pc = "done"
               /\ thr'[t].sent = << Msg("retry_prompt") >>)
              => user_states'[thr'[t].user] = Idle
         /\ (Steps(t) /\ thr'[t].ev = "try_again_no")
              => file' = file /\ user_states' = user_states]_vars

\* C3 witness: the handler of a save whose location was not found has sent
\* the retry prompt and returned, the session is idle, the store is as it was
C3_Witness ==
    \E t \in Threads :
        /\ SaveRun(t) /\ ~thr[t].resolved /\ thr[t].pc = "done"
        /\ thr[t].sent = << Msg("retry_prompt") >>
        /\ user_states[thr[t].user] = Idle
        /\ file \in InitFiles

\* C4: once the handler of a free-text message handled in a waiting state
\* has finished, by a return or by an exception, the session step is idle.
C4_IdleAfterText ==
    \A t \in Threads :
        (AwaitedText(t) /\ Ended(t)) => user_states[thr[t].user] = Idle

\* C5: the handler of a try_again_no press sends the "not saved" text and
\* leaves the session step idle, whatever the step was.
C5_TryAgainNoIdle ==
    \A t \in Threads :
        (thr[t].ev = "try_again_no" /\ thr[t].pc = "done")
        => /\ thr[t].sent = << Msg("not_saved") >>
           /\ user_states[thr[t].user] = Idle

\* the session step of the user when the event of the handler that ends in
\* this step was dispatched
StepAtDispatch(t) ==
    IF Busy(t) THEN thr[t].current_state ELSE user_states[thr'[t].user]

\* C6: the handling of an inbound event of a user whose session is in a
\* waiting step resolves or abandons that step: when the handler returns the
\* session is idle, or, for get_weather, set_location and try_again_yes, in
\* the waiting step that button opens.
C6_EveryEventLeavesWaiting ==
    [][\A t \in Threads :
         (Steps(t) /\ thr'[t].pc = "done" /\ StepAtDispatch(t) # Idle
            /\ thr'[t].ev \notin {"get_weather", "set_location", "try_again_yes"})
         => user_states'[thr'[t].user] = Idle]_vars

\* C7: when an exception is raised while a free-text message is handled in
\* a waiting state, the exception does not leave the handler, the generic
\* error text is sent and the session step is idle when the handler ends.
C7_ExceptionsHandled ==
    \A t \in Threads :
        (AwaitedText(t) /\ thr[t].exc # "none" /\ Ended(t))
        => /\ thr[t].pc = "done"
           /\ ErrorMsg(thr[t]) \in Range(thr[t].sent)
           /\ user_states[thr[t].user] = Idle

\* C8: a stored value that fails structural validation is treated as absent
\* and recreated: the run does not fail on a dict without "locations" (no
\* KeyError), and every record a run has written for its user has the three
\* fields.
C8_MalformedRecreated ==
    \A t \in Threads :
        SaveRun(t)
        => /\ thr[t].exc # "KeyError"
           /\ Saved(t) => WellFormed(thr[t].data[thr[t].user])

\* C9: no load of the store reads a partially written file (json.load of a
\* truncated file raises JSONDecodeError).
C9_NoPartialRead == \A t \in Threads : thr[t].exc # "JSONDecodeError"

\* C10: with events handled one at a time, a run that finds no record of
\* its user in the store, the store being created empty when there was no
\* file, writes a profile with the default preferences, alerts_enabled true
\* and the location as the only element of locations; the load never fails.
C10_FirstSaveCreatesProfile ==
    \A t \in Threads :
        /\ thr[t].exc # "JSONDecodeError"
        /\ thr[t].pc = "load_read" => file.st = "full"
        /\ (SaveRun(t) /\ thr[t].branch = "new" /\ thr[t].exc # "OSError"
              /\ thr[t].pc \in {"pop", "done", "raised"})
           => /\ thr[t].outcome = "added"
              /\ file = FileWith([file.data EXCEPT ![thr[t].user] =
                                    FirstProfile(thr[t].location)])

\* C10 witness: the first save of a user without a record has returned
C10_Witness ==
    \E t \in Threads :
        /\ Saved(t) /\ thr[t].branch = "new" /\ thr[t].pc = "done"
        /\ file.data[thr[t].user] = FirstProfile(thr[t].location)

\* C11: the handler of a failed save has sent the retry prompt and not yet
\* cleared the session, the try_again_yes press of that prompt is handled,
\* then the save's handler clears the session: once both handlers have
\* finished the session step of the user is waiting_for_save_location.
C11_TryAgainYesSurvives ==
    [][\A t, o \in Threads :
         (/\ SaveRun(t) /\ ~thr[t].resolved /\ thr[t].pc = "pop"
          /\ thr[t].sent = << Msg("retry_prompt") >>
          /\ thr[o].ev = "try_again_yes" /\ thr[o].pc = "done"
          /\ thr[o].user = thr[t].user
          /\ thr'[t].pc = "done")
         => user_states'[thr[t].user] = WaitSave]_vars

\* the handler of the event returned, no send_message of its last attempt
\* having raised
Returned(t) == thr[t].pc = "done"

\* a free-text message handled in waiting_for_weather_location whose
\* location the resolver did not find
SilentCase(t) ==
    thr[t].ev = "text" /\ thr[t].current_state = WaitWeather /\ ~thr[t].resolved

\* C12: a handler that has returned has sent at least one message to the
\* user, whatever the event and the session step, except for a free-text
\* message handled in waiting_for_weather_location whose location the
\* resolver did not find, which has sent none.
C12_NeverSilent ==
    \A t \in Threads :
        Returned(t) => (thr[t].sent = <<>> <=> SilentCase(t))

\* C12 witness: a handler of the silent case has returned beside one that
\* caught an exception and sent the error text
C12_Witness ==
    \E t, o \in Threads :
        /\ Returned(t) /\ SilentCase(t) /\ thr[t].sent = <<>>
        /\ thr[o].exc = "KeyError" /\ thr[o].pc = "pop" /\ thr[o].sent # <<>>

\* a free-text message handled in waiting_for_weather_location whose
\* location was resolved, the sends of the try block having returned
WeatherRun(t) ==
    /\ thr[t].ev = "text" /\ thr[t].current_state = WaitWeather
    /\ thr[t].resolved /\ thr[t].exc = "none" /\ thr[t].pc \in {"pop", "done"}

\* C13: after the location is resolved the weather pipeline sends, for the
\* provider's answer: no answer (unreachable, non-success status), only the
\* "could not retrieve" text; an empty or missing forecast list, only "No
\* weather data available."; a first entry without a weather list, only "No
\* weather description available."; otherwise "Here's the weather!" and a
\* summary with the capitalised description of the first entry and its
\* temperature, "N/A" when the entry has none.
C13_WeatherOutcomes ==
    \A t \in Threads :
        WeatherRun(t)
        => LET w == thr[t].weather
               sent == thr[t].sent
           IN  /\ w.resp = "none" => sent = << Msg("could_not_retrieve") >>
               /\ (w.resp = "json" /\ w.list = <<>>) => sent = << Msg("no_data") >>
               /\ (w.resp = "json" /\ w.list # <<>> /\ w.list[1].weather = <<>>)
                     => sent = << Msg("no_description") >>
               /\ (w.resp = "json" /\ w.list # <<>> /\ w.list[1].weather # <<>>)
                     => /\ Len(sent) = 2
                        /\ sent[1] = Msg("heres_the_weather")
                        /\ sent[2].kind = "summary"
                        /\ w.list[1].weather[1].has
                             => sent[2].desc =
                                  Capitalize(w.list[1].weather[1].description)
                        /\ sent[2].temp =
                             (IF w.list[1].hasTemp THEN w.list[1].temp ELSE "N/A")

\* C13 witness: the description "cS" of the first entry has been sent as
\* "Cs" with the temperature, and on the other thread an entry without a
\* temperature has been sent with "N/A"
C13_Witness ==
    \E t, o \in Threads :
        /\ WeatherRun(t) /\ thr[t].pc = "done"
        /\ Len(thr[t].sent) = 2 /\ Len(thr[o].sent) = 2
        /\ thr[t].sent[2].desc = <<"C", "s">> /\ thr[t].sent[2].temp = "21.5"
        /\ WeatherRun(o) /\ thr[o].pc = "pop"
        /\ Len(thr[o].weather.list) = 2 /\ thr[o].sent[2].temp = "N/A"

NoDuplicates(list) == \A i, j \in 1..Len(list) : list[i] = list[j] => i = j

\* the elements of list stand in the order in which hist has them
InOrderOf(list, hist) ==
    \A i, j \in 1..Len(list) :
        i < j => \E a, b \in 1..Len(hist) :
                    a < b /\ hist[a] = list[i] /\ hist[b] = list[j]

\* C14: in every state in which the store holds a complete document, the
\* locations list of every stored profile has no string twice and has its
\* strings in the order in which they were first added.
C14_NoDuplicatesInOrder ==
    file.st = "full"
    => \A u \in Users :
          /\ NoDuplicates(LocationsOf(file.data[u]))
          /\ InOrderOf(LocationsOf(file.data[u]), added[u])

\* the run of thread t has found its location in the user's list
Duplicate(t) == SaveRun(t) /\ thr[t].outcome = "duplicate"

\* C15: a save-location run that finds the trimmed location in the list of
\* its user (line 196) found it in the store as it was at that moment; from
\* there to its end no step of the run changes the store; the user's record
\* it holds is the one it loaded; and, unless send_message raises, the one
\* message it sends is the "already in your saved locations" text.
C15_DuplicateWritesNothing ==
    [][\A t \in Threads :
         /\ (Steps(t) /\ (Duplicate(t) \/ Duplicate(t)')) => file' = file
         /\ (Steps(t) /\ ~Duplicate(t) /\ Duplicate(t)')
              => /\ Holds(thr[t].user, thr[t].location)
                 /\ thr'[t].data = file.data
         /\ (Steps(t) /\ Duplicate(t)' /\ thr'[t].exc = "none")
              => thr'[t].sent = << AlreadyMsg(thr'[t].location) >>]_vars

\* C15 witness: the run that found " p", trimmed to "p", in the list has
\* sent the one text and returned, and the store holds "p" once
C15_Witness ==
    \E t \in Threads :
        /\ Duplicate(t) /\ thr[t].pc = "done" /\ thr[t].exc = "none"
        /\ thr[t].location = <<"p">>
        /\ thr[t].sent = << AlreadyMsg(<<"p">>) >>
        /\ file.st = "full"
        /\ Count(<<"p">>, file.data[thr[t].user].locations) = 1

\* C16: a step of a handler of an event of user u leaves the session step
\* of every other user as it was, and a session step that changes is the one
\* of the user of the handler that takes the step.
C16_OtherUsersUntouched ==
    [][\A t \in Threads :
         /\ Steps(t) => \A v \in Users \ {thr'[t].user} :
                           user_states'[v] = user_states[v]
         /\ \A v \in Users :
               user_states'[v] # user_states[v]
               => \E o \in Threads : Steps(o) /\ thr'[o].user = v]_vars

\* C16 witness: the handler of a text of one user has cleared that user's
\* step while the other user's step is still a waiting one
C16_Witness ==
    \E t \in Threads :
        /\ AwaitedText(t) /\ thr[t].pc = "done"
        /\ user_states[thr[t].user] = Idle
        /\ \E v \in Users \ {thr[t].user} : user_states[v] = WaitSave

\* the events that neither read nor write the session map
Stateless == {"/start", "start_yes", "start_no", "weather_alerts"}

\* C17: a step that changes the store is a step of the handler of a
\* free-text message handled in waiting_for_save_location whose location the
\* resolver resolved and which has not found the location in the user's
\* list; every step of the handler of any other event leaves the store as
\* it is; and the handlers of /start, start_yes, start_no and weather_alerts
\* leave every session step as it is.
C17_OnlySaveWrites ==
    [][\A t \in Threads :
         /\ (Steps(t) /\ file' # file)
              => /\ SaveRun(t)' /\ thr'[t].resolved
                 /\ thr'[t].outcome \notin {"duplicate", "notfound"}
         /\ (Steps(t) /\ ~(SaveRun(t)' /\ thr'[t].resolved)) => file' = file
         /\ (Steps(t) /\ thr'[t].ev \in Stateless)
              => user_states' = user_states]_vars

\* C17 witness: a save has appended to an existing list and written the
\* store, and the handler of start_no has run for a user in a waiting step
C17_Witness ==
    \E t, o \in Threads :
        /\ Saved(t) /\ thr[t].branch = "existing" /\ thr[t].pc = "pop"
        /\ Holds(thr[t].user, thr[t].location)
        /\ Len(file.data[thr[t].user].locations) = 2
        /\ thr[o].ev = "start_no" /\ thr[o].pc = "done"
        /\ user_states[thr[o].user] # Idle

\* the buttons that open a waiting step, and the step each opens
Opens(ev) ==
    CASE ev = "get_weather" -> WaitWeather
      [] ev = "set_location" -> WaitSave
      [] ev = "try_again_yes" -> WaitSave
      [] OTHER -> Idle

\* the handler of a press of such a button has returned
Pressed(t) == Opens(thr[t].ev) # Idle /\ thr[t].pc = "done"

\* C18: once the handler of a get_weather, set_location or try_again_yes
\* press has returned, the session step of the user is the step that button
\* opens, whatever the step was before, and it is still that step after the
\* next step of a handler that was running when the button was pressed, so
\* that the user's next free-text message goes to that button's pipeline.
C18_LastPressRoutes ==
    [][\A o \in Threads :
         /\ (Steps(o) /\ Pressed(o)')
              => user_states'[thr'[o].user] = Opens(thr'[o].ev)
         /\ (Pressed(o) /\ \E t \in Threads \ {o} : Busy(t) /\ Steps(t))
              => user_states'[thr[o].user] = Opens(thr[o].ev)]_vars

\* the data a run passes to save_user_data keeps what the store holds: the
\* records of the other users as they are and, when the stored record of
\* its user is a well-formed profile, that record with location at the end
KeepsStore(t) ==
    LET u == thr[t].user
    IN  /\ file.st = "full"
        /\ \A v \in Users \ {u} : thr[t].data[v] = file.data[v]
        /\ WellFormed(file.data[u])
             => thr[t].data[u] =
                  [file.data[u] EXCEPT !.locations = Append(@, thr[t].location)]

\* C19: with events handled one at a time, a run that is about to call
\* save_user_data passes data that keeps what the store holds (every other
\* user's record unchanged, every location of a well-formed record of its
\* user still there); save_user_data leaves exactly that data in the store;
\* no other step changes an existing store; so the list of a well-formed
\* profile holds every location ever added to it.
C19_SavedLocationsStay ==
    [][\A t \in Threads :
         /\ thr'[t].pc = "save_open" => KeepsStore(t)'
         /\ (Steps(t) /\ thr[t].pc = "save_open")
              => /\ thr'[t].data = thr[t].data
                 /\ file' = file \/ file' = FilePartial
         /\ (Steps(t) /\ thr[t].pc = "save_dump") => file' = FileWith(thr[t].data)
         /\ (Steps(t) /\ thr[t].pc \notin {"save_open", "save_dump"}
               /\ file.st = "full") => file' = file
         /\ file'.st = "full"
              => \A u \in Users :
                    WellFormed(file'.data[u])
                    => Range(added'[u]) \subseteq Range(file'.data[u].locations)]_vars

\* C19 witness: "r" has been saved after "p" for a user with a well-formed
\* profile; the store holds both, in this order
C19_Witness ==
    \E t \in Threads :
        /\ Saved(t) /\ thr[t].pc = "done" /\ thr[t].location = <<"r">>
        /\ file.st = "full"
        /\ WellFormed(file.data[thr[t].user])
        /\ file.data[thr[t].user].locations = << <<"p">>, <<"r">> >>
        /\ added[thr[t].user] = << <<"p">>, <<"r">> >>

====
